---- MODULE Spec2Model ----
(***************************************************************************)
(* Model of nft-ptr-lib (src/impl/nft-ptr-lib/src/lib.rs): the NftPtrLib   *)
(* context object, the blockchain node it talks to, and the symbolication  *)
(* helpers.                                                                 *)
(*                                                                         *)
(* Every public operation takes &mut self, so calls on one NftPtrLib never *)
(* interleave: each operation is one atomic action.  What the node answers *)
(* (an RPC error, a reverted transaction, a failed confirmation wait) is   *)
(* an input of the action.  A panic (unwrap on Err/None, panic!) ends the  *)
(* process: no operation is enabled afterwards.                            *)
(*                                                                         *)
(* Computed strings (String values built by format!) are sequences of      *)
(* one-character strings, so that hexadecimal formatting and percent       *)
(* encoding are computed character by character.  Option<T> is a set with  *)
(* at most one element.                                                    *)
(***************************************************************************)
EXTENDS Integers, Sequences, FiniteSets, TLC

\* ------------------------------------------------------------------ bounds
MaxId == 2          \* instance identifiers are 1..MaxId
MaxContracts == 2   \* contracts the chain creates before the model stops
MaxSymbols == 2     \* symbols the resolver reports for one address

\* --------------------------------------------------------------- constants
NUM_CONFIRMATIONS == 0
TOKEN_BASE_URI == "https://nft-ptr.notnow.dev/?"
TokenGas == 6000000
OwnerGas == 720000
MoveGas == 220000

\* Option<T>
None == {}
Some(x) == {x}
Unwrap(o) == CHOOSE x \in o : TRUE

\* Addresses.  Address::zero(), the node's first unlocked account, the
\* address derived from the keystore key, and the addresses the chain gives
\* to created contracts (all distinct).
ZeroAddress == 0
NodeAccount == 1
KeyAccount == 2
ContractAddress(n) == KeyAccount + n

Ids == 1..MaxId
Values == {1, 26}

\* ---------------------------------------------------------------- strings
HexDigits == <<"0","1","2","3","4","5","6","7","8","9","a","b","c","d","e","f">>
UpperHexDigits == <<"0","1","2","3","4","5","6","7","8","9","A","B","C","D","E","F">>

RECURSIVE LowerHex(_)
\* format!("{:x}", n)
LowerHex(n) ==
    IF n < 16 THEN <<HexDigits[n + 1]>>
    ELSE LowerHex(n \div 16) \o <<HexDigits[(n % 16) + 1]>>

Alphanumeric ==
    {"0","1","2","3","4","5","6","7","8","9",
     "a","b","c","d","e","f","g","h","i","j","k","l","m",
     "n","o","p","q","r","s","t","u","v","w","x","y","z",
     "A","B","C","D","E","F","G","H","I","J","K","L","M",
     "N","O","P","Q","R","S","T","U","V","W","X","Y","Z"}

\* ASCII codes of the non-alphanumeric characters the model's strings use.
AsciiCode(c) ==
    CASE c = " " -> 32
      [] c = "(" -> 40
      [] c = ")" -> 41
      [] c = "*" -> 42
      [] c = "." -> 46
      [] c = "/" -> 47
      [] c = ":" -> 58
      [] c = "_" -> 95

\* percent_encoding::utf8_percent_encode(s, NON_ALPHANUMERIC).to_string()
RECURSIVE PercentEncode(_)
PercentEncode(s) ==
    IF s = <<>> THEN <<>>
    ELSE LET c == Head(s)
             e == IF c \in Alphanumeric THEN <<c>>
                  ELSE <<"%", UpperHexDigits[(AsciiCode(c) \div 16) + 1],
                              UpperHexDigits[(AsciiCode(c) % 16) + 1]>>
         IN  e \o PercentEncode(Tail(s))

RECURSIVE Text(_)
\* A computed string as one string value, for reading and comparing.
Text(s) == IF s = <<>> THEN "" ELSE Head(s) \o Text(Tail(s))

\* Mangled names and what cpp_demangle makes of them.
P3Cow == <<"P","3","C","o","w">>
Z3foov == <<"_","Z","3","f","o","o","v">>
MainName == <<"m","a","i","n">>
ValidMangled == {P3Cow, Z3foov}
TypeNames == {P3Cow, Z3foov, MainName}

\* cpp_demangle::Symbol::new(typename): Ok(symbol) / Err
SymbolNew(typename) ==
    IF typename \in ValidMangled THEN Some(typename) ELSE None

\* Symbol::to_string()
SymbolToString(sym) ==
    CASE sym = P3Cow -> <<"C","o","w","*">>
      [] sym = Z3foov -> <<"f","o","o","(",")">>

\* Variant: an empty string instead of the input when demangling fails.
demangle_cpp_empty_on_failure(typename) ==
    LET demangled == SymbolNew(typename)
    IN  IF demangled # None THEN SymbolToString(Unwrap(demangled)) ELSE <<>>

\* demangle_cpp: the demangled form, or the input when Symbol::new fails
demangle_cpp(typename) ==
    LET demangled == SymbolNew(typename)
    IN  IF demangled # None THEN SymbolToString(Unwrap(demangled)) ELSE typename

\* ----------------------------------------------------------- symbolication
RECURSIVE Decimal(_)
\* format!("{}", n)
Decimal(n) ==
    IF n < 10 THEN <<HexDigits[n + 1]>>
    ELSE Decimal(n \div 10) \o <<HexDigits[(n % 10) + 1]>>

\* A symbol the resolver reports: name(), filename() and lineno() are
\* Options; a filename is a path, the sequence of its components.
CowCpp == <<"c","o","w",".","c","p","p">>
SrcDir == <<"s","r","c">>
SymbolNames == {None, Some(Z3foov), Some(MainName)}
SymbolFiles == {None, Some(<<SrcDir, CowCpp>>)}
SymbolLines == {None, Some(42)}
Symbols == [name : SymbolNames, filename : SymbolFiles, lineno : SymbolLines]

\* Path::file_name(): the final component
FileName(path) == path[Len(path)]

\* The closure given to backtrace::resolve, run on one symbol; st is the
\* captured (outstr, once).
ResolveCallback(symbol, st) ==
    IF st.once \/ symbol.name = None THEN st
    ELSE IF symbol.filename # None /\ symbol.lineno # None
         THEN [once |-> TRUE,
               outstr |-> Some(demangle_cpp(Unwrap(symbol.name))
                               \o <<" ", "(">> \o FileName(Unwrap(symbol.filename))
                               \o <<":">> \o Decimal(Unwrap(symbol.lineno))
                               \o <<")">>)]
         ELSE [once |-> TRUE, outstr |-> Some(demangle_cpp(Unwrap(symbol.name)))]

\* Variant: the closure without the `once` latch, every named symbol
\* overwrites outstr.
ResolveCallbackNoLatch(symbol, st) ==
    ResolveCallback(symbol, [once |-> FALSE, outstr |-> st.outstr])

RECURSIVE BacktraceResolve(_, _)
\* backtrace::resolve: calls the closure once per reported symbol, in order
BacktraceResolve(symbols, st) ==
    IF symbols = <<>> THEN st
    ELSE BacktraceResolve(Tail(symbols), ResolveCallback(Head(symbols), st))

RECURSIVE BacktraceResolveNoLatch(_, _)
BacktraceResolveNoLatch(symbols, st) ==
    IF symbols = <<>> THEN st
    ELSE BacktraceResolveNoLatch(Tail(symbols),
                                 ResolveCallbackNoLatch(Head(symbols), st))

\* Variant: string_for_pc_addr over the closure without the latch.
string_for_pc_addr_last_symbol(pc_addr, symbols) ==
    LET st == BacktraceResolveNoLatch(symbols, [once |-> FALSE, outstr |-> None])
    IN  IF st.outstr = None THEN LowerHex(pc_addr) ELSE Unwrap(st.outstr)

\* symbols: what backtrace::resolve reports for pc_addr
string_for_pc_addr(pc_addr, symbols) ==
    LET st == BacktraceResolve(symbols, [once |-> FALSE, outstr |-> None])
    IN  IF ~st.once THEN LowerHex(pc_addr) ELSE Unwrap(st.outstr)

\* ------------------------------------------------------------------- state
VARIABLES
    account,                \* NftPtrLib.account
    token_contract,         \* NftPtrLib.token_contract: Option of its address
    instance_to_contract,   \* NftPtrLib.instance_to_contract: id -> address
    num_confirmations,      \* NftPtrLib.num_confirmations
    network_id,             \* NftPtrLib.network_id (read by is_goerli, for logging only)
    use_hardcoded_gas,      \* NftPtrLib.use_hardcoded_gas
    account_private_key,    \* NftPtrLib.account_private_key: Option
    net_version,            \* the node: what net_version answers
    chain_contracts,        \* the chain: contracts created so far
    submitted,              \* the node: transactions the last call submitted
    last_call,              \* the last public operation, its arguments, how it ended
    sym_call                \* the last direct call of a symbolication helper

libVars == <<account, token_contract, instance_to_contract, num_confirmations,
             network_id, use_hardcoded_gas, account_private_key>>
nodeVars == <<net_version, chain_contracts, submitted>>
vars == <<libVars, nodeVars, last_call, sym_call>>

NetVersions == {"1", "5"}
ParseU32(version) ==
    CASE version = "1" -> 1
      [] version = "5" -> 5

Call(op, a, b, v, result) ==
    [op |-> op, owner_address |-> a, previous_owner_address |-> b,
     value |-> v, result |-> result]
NoSymCall == [fn |-> "none", pc_addr |-> 0, symbols |-> <<>>,
              typename |-> <<>>, out |-> <<>>]

Panicked == last_call.result = "panicked"

\* NftPtrLib::new, with the environment it reads
Init ==
    /\ account = ZeroAddress
    /\ token_contract = None
    /\ instance_to_contract = <<>>
    /\ num_confirmations \in {NUM_CONFIRMATIONS, 1}
    /\ network_id = 0
    /\ use_hardcoded_gas \in BOOLEAN
    /\ account_private_key \in {None, Some("key")}
    /\ net_version \in NetVersions
    /\ chain_contracts = {}
    /\ submitted = <<>>
    /\ last_call = Call("new", 0, 0, 0, "returned")
    /\ sym_call = NoSymCall

\* ---------------------------------------------------------------- the node
DeployOutcomes == {"send_failed", "reverted", "confirm_failed", "ok"}
NextAddress == ContractAddress(Cardinality(chain_contracts) + 1)

\* The account a transaction is sent from: the unlocked node account given
\* to execute / call_with_confirmations, or the signing key's address.
Sender == IF account_private_key = None THEN account ELSE KeyAccount

Gas(limit) == IF use_hardcoded_gas THEN Some(limit) ELSE None

\* Variant: a failed submission is tried a second time.
SubmittedTwice(outcome, tx) ==
    IF outcome = "ok" THEN <<tx>> ELSE <<tx, tx>>

\* What one execute / sign_with_key_and_execute / call submits: nothing when
\* the RPC fails before the transaction is accepted (eth_sendTransaction,
\* or chain_id on the signing path), else one transaction.
Submitted(outcome, tx) ==
    IF outcome = "send_failed" THEN <<>> ELSE <<tx>>

\* The contract a deployment leaves on chain: none when the transaction was
\* not accepted or reverted; confirmed only when the wait for
\* num_confirmations confirmations succeeded.
Created(outcome, artifact) ==
    IF outcome \in {"confirm_failed", "ok"}
    THEN {[address |-> NextAddress, artifact |-> artifact,
           confirmed |-> (outcome = "ok"),
           confirmations |-> num_confirmations]}
    ELSE {}

DeployTx(artifact, gas, args) ==
    [method |-> "deploy", artifact |-> artifact, from |-> Sender,
     gas |-> Gas(gas), confirmations |-> num_confirmations, args |-> args]

\* ------------------------------------------------------------ resolve
\* Variant: the zero address instead of the account as the fallback.
mem_address_zero_fallback(a) ==
    IF a \in DOMAIN instance_to_contract THEN instance_to_contract[a]
    ELSE ZeroAddress

mem_address_to_owner_contract_address(a) ==
    IF a \in DOMAIN instance_to_contract THEN instance_to_contract[a]
    ELSE account

\* ------------------------------------------------------------- operations
Returned(op, a, b, v) == last_call' = Call(op, a, b, v, "returned")
Panics(op, a, b, v) == last_call' = Call(op, a, b, v, "panicked")

\* Variant: the guard compares against the network's name.
check_not_prod_refuses_name(version) == version = "mainnet"

\* check_not_prod: the guard that refuses the production network
check_not_prod_refuses(version) == version = "1"

\* The account initialize resolves: accounts()[0] of the node, or the
\* address of the keystore key.
ResolvedAccount ==
    IF account_private_key = None THEN NodeAccount ELSE KeyAccount

TokenArgs == <<"NftPtrToken", "NFT", TOKEN_BASE_URI>>

\* deploy_token_contract, entered with self.account = my_account
deploy_token_contract(my_account, outcome) ==
    LET from == IF account_private_key = None THEN my_account ELSE KeyAccount
        tx == [DeployTx("NftPtrToken", TokenGas, TokenArgs) EXCEPT !.from = from]
    IN  /\ submitted' = Submitted(outcome, tx)
        /\ chain_contracts' = chain_contracts \cup Created(outcome, "NftPtrToken")
        /\ token_contract' = IF outcome = "ok" THEN Some(NextAddress)
                             ELSE token_contract

InitializeFailures == {"version", "accounts", "none"}

\* initialize.  fail_at: the RPC that fails before the deployment, if any;
\* outcome: how the deployment ends when it is reached.
initialize(fail_at, outcome) ==
    /\ ~Panicked
    /\ Cardinality(chain_contracts) < MaxContracts
    /\ UNCHANGED <<instance_to_contract, num_confirmations, use_hardcoded_gas,
                   account_private_key, net_version, sym_call>>
    /\ IF fail_at = "version" \/ check_not_prod_refuses(net_version)
       THEN \* net().version() failed, or the mainnet panic!
            /\ Panics("initialize", 0, 0, 0)
            /\ submitted' = <<>>
            /\ UNCHANGED <<account, token_contract, network_id, chain_contracts>>
       ELSE /\ network_id' = ParseU32(net_version)
            /\ IF fail_at = "accounts" /\ account_private_key = None
               THEN \* eth().accounts() failed or answered no account
                    /\ Panics("initialize", 0, 0, 0)
                    /\ submitted' = <<>>
                    /\ UNCHANGED <<account, token_contract, chain_contracts>>
               ELSE /\ account' = ResolvedAccount
                    /\ deploy_token_contract(ResolvedAccount, outcome)
                    /\ IF outcome = "ok"
                       THEN Returned("initialize", 0, 0, 0)
                       ELSE Panics("initialize", 0, 0, 0)

\* Variant: ptr_initialize deploys the token artifact.
ptr_initialize_artifact_token == "NftPtrToken"

\* The artifact ptr_initialize deploys (NftPtrOwner.code / NftPtrOwner.json).
ptr_initialize_artifact == "NftPtrOwner"

\* Variant: the insert happens whatever the deployment's Result.
RegistryInsertAlways(owner_address, outcome, address) ==
    (owner_address :> address) @@ instance_to_contract

\* Variant: an existing entry is kept (entry().or_insert()).
RegistryInsertIfAbsent(owner_address, outcome, address) ==
    IF outcome = "ok" /\ owner_address \notin DOMAIN instance_to_contract
    THEN (owner_address :> address) @@ instance_to_contract
    ELSE instance_to_contract

\* The registry after ptr_initialize: the insert is reached only when the
\* deployment's Result is Ok (unwrap panics otherwise), and HashMap::insert
\* replaces an existing entry.
RegistryInsert(owner_address, outcome, address) ==
    IF outcome = "ok"
    THEN (owner_address :> address) @@ instance_to_contract
    ELSE instance_to_contract

\* ptr_initialize.  symbols: what the resolver reports for caller_pc;
\* outcome: how the deployment ends.
ptr_initialize(owner_address, caller_pc, ptr_object_type, symbols, outcome) ==
    LET name == LowerHex(owner_address) \o <<" ">> \o demangle_cpp(ptr_object_type)
                \o <<" ">> \o string_for_pc_addr(caller_pc, symbols)
        tx == DeployTx(ptr_initialize_artifact, OwnerGas, <<name>>)
    IN  /\ ~Panicked
        /\ Cardinality(chain_contracts) < MaxContracts
        /\ submitted' = Submitted(outcome, tx)
        /\ chain_contracts' =
               chain_contracts \cup Created(outcome, ptr_initialize_artifact)
        /\ instance_to_contract' = RegistryInsert(owner_address, outcome, NextAddress)
        /\ IF outcome = "ok"
           THEN Returned("ptr_initialize", owner_address, 0, 0)
           ELSE Panics("ptr_initialize", owner_address, 0, 0)
        /\ UNCHANGED <<account, token_contract, num_confirmations, network_id,
                       use_hardcoded_gas, account_private_key, net_version,
                       sym_call>>

\* Variant: ptr_destroy empties the registry.
RegistryClear(owner_address) == <<>>

\* The registry after ptr_destroy: HashMap::remove
RegistryRemove(owner_address) ==
    [a \in DOMAIN instance_to_contract \ {owner_address} |-> instance_to_contract[a]]

\* ptr_destroy
ptr_destroy(owner_address) ==
    /\ ~Panicked
    /\ instance_to_contract' = RegistryRemove(owner_address)
    /\ submitted' = <<>>
    /\ Returned("ptr_destroy", owner_address, 0, 0)
    /\ UNCHANGED <<account, token_contract, num_confirmations, network_id,
                   use_hardcoded_gas, account_private_key, net_version,
                   chain_contracts, sym_call>>

\* How a contract call ends.  "ok" is any mined transaction: a reverted
\* mintOrMove still returns Ok(receipt), the receipt's status is not read.
CallOutcomes == {"send_failed", "confirm_failed", "ok"}

\* Variant: owner and previous owner swapped in the arguments.
MoveTxSwapped(owner_address, previous_owner_address, value, caller_pc, object_type, symbols) ==
    [method |-> "mintOrMove", to |-> Unwrap(token_contract), from |-> Sender,
     gas |-> Gas(MoveGas), confirmations |-> num_confirmations,
     args |-> << mem_address_to_owner_contract_address(previous_owner_address),
                 mem_address_to_owner_contract_address(owner_address),
                 value,
                 PercentEncode(LowerHex(value) \o <<" ">> \o demangle_cpp(object_type)),
                 LowerHex(owner_address) \o <<" ">>
                     \o string_for_pc_addr(caller_pc, symbols) >>]

\* The mintOrMove transaction move_token builds
MoveTx(owner_address, previous_owner_address, value, caller_pc, object_type, symbols) ==
    LET caller_pc_lineinfo == string_for_pc_addr(caller_pc, symbols)
        caller_pc_backtrace_str ==
            LowerHex(owner_address) \o <<" ">> \o caller_pc_lineinfo
        token_uri == LowerHex(value) \o <<" ">> \o demangle_cpp(object_type)
    IN  [method |-> "mintOrMove", to |-> Unwrap(token_contract), from |-> Sender,
         gas |-> Gas(MoveGas), confirmations |-> num_confirmations,
         args |-> << mem_address_to_owner_contract_address(owner_address),
                     mem_address_to_owner_contract_address(previous_owner_address),
                     value,
                     PercentEncode(token_uri),
                     caller_pc_backtrace_str >>]

\* move_token
move_token(owner_address, previous_owner_address, value, caller_pc, object_type, symbols, outcome) ==
    /\ ~Panicked
    /\ IF token_contract = None
       THEN \* self.token_contract.as_ref().unwrap()
            /\ submitted' = <<>>
            /\ Panics("move_token", owner_address, previous_owner_address, value)
       ELSE /\ submitted' =
                   Submitted(outcome, MoveTx(owner_address, previous_owner_address,
                                             value, caller_pc, object_type, symbols))
            /\ IF outcome = "ok"
               THEN Returned("move_token", owner_address, previous_owner_address, value)
               ELSE Panics("move_token", owner_address, previous_owner_address, value)
    /\ UNCHANGED <<libVars, net_version, chain_contracts, sym_call>>

\* What the callers pass, and what the resolver reports for the caller's
\* address, in the library runs.
FooSymbol == [name |-> Some(Z3foov), filename |-> Some(<<SrcDir, CowCpp>>),
              lineno |-> Some(42)]
CallSites ==
    { [caller_pc |-> 255, object_type |-> P3Cow, symbols |-> <<>>],
      [caller_pc |-> 4096, object_type |-> MainName, symbols |-> <<FooSymbol>>] }

Next ==
    \/ \E f \in InitializeFailures, o \in DeployOutcomes : initialize(f, o)
    \/ \E a \in Ids, s \in CallSites, o \in DeployOutcomes :
          ptr_initialize(a, s.caller_pc, s.object_type, s.symbols, o)
    \/ \E a \in Ids : ptr_destroy(a)
    \/ \E a \in Ids, b \in Ids, v \in Values, s \in CallSites, o \in CallOutcomes :
          move_token(a, b, v, s.caller_pc, s.object_type, s.symbols, o)

Spec == Init /\ [][Next]_vars

\* ------------------------------------------- the helpers called directly
PcAddrs == {0, 255, 4096}
SymbolSeqs == UNION {[1..n -> Symbols] : n \in 0..MaxSymbols}
SymInputs ==
    {[fn |-> "input", pc_addr |-> 0, symbols |-> <<>>, typename |-> t,
      out |-> <<>>] : t \in TypeNames}
    \cup {[fn |-> "input", pc_addr |-> pc, symbols |-> syms, typename |-> <<>>,
           out |-> <<>>] : pc \in PcAddrs, syms \in SymbolSeqs}

SymInit ==
    /\ account = ZeroAddress
    /\ token_contract = None
    /\ instance_to_contract = <<>>
    /\ num_confirmations = NUM_CONFIRMATIONS
    /\ network_id = 0
    /\ use_hardcoded_gas = TRUE
    /\ account_private_key = None
    /\ net_version = "5"
    /\ chain_contracts = {}
    /\ submitted = <<>>
    /\ last_call = Call("new", 0, 0, 0, "returned")
    /\ sym_call \in SymInputs

CallDemangleCpp ==
    /\ sym_call.fn = "input"
    /\ sym_call.typename # <<>>
    /\ sym_call' = [sym_call EXCEPT !.fn = "demangle_cpp",
                                    !.out = demangle_cpp(sym_call.typename)]
    /\ UNCHANGED <<libVars, nodeVars, last_call>>

CallStringForPcAddr ==
    /\ sym_call.fn = "input"
    /\ sym_call.typename = <<>>
    /\ sym_call' = [sym_call EXCEPT
                       !.fn = "string_for_pc_addr",
                       !.out = string_for_pc_addr(sym_call.pc_addr, sym_call.symbols)]
    /\ UNCHANGED <<libVars, nodeVars, last_call>>

SymNext == CallDemangleCpp \/ CallStringForPcAddr

SymSpec == SymInit /\ [][SymNext]_vars

\* ================================================================== claims
OwnerContracts == {c \in chain_contracts : c.artifact = "NftPtrOwner"}
TokenContracts == {c \in chain_contracts : c.artifact = "NftPtrToken"}
Registered == DOMAIN instance_to_contract
CalledOp == last_call'.op
CallReturned == last_call'.result = "returned"
CallPanicked == last_call'.result = "panicked"

\* C1: in every reachable state, an identifier that is not a key of the
\* registry resolves to the current account, never to the address of an
\* instance contract.
C1_UnregisteredResolvesToAccount ==
    \A id \in Ids :
        id \notin Registered =>
            /\ mem_address_to_owner_contract_address(id) = account
            /\ mem_address_to_owner_contract_address(id)
                   \notin {c.address : c \in OwnerContracts}

\* An initialized library with an instance contract on chain whose
\* identifier has been destroyed and so is unregistered again.
C1_Witness ==
    /\ account # ZeroAddress
    /\ last_call.op = "ptr_destroy"
    /\ last_call.owner_address \notin Registered
    /\ OwnerContracts # {}

\* C2: after ptr_initialize(id, ..) returns, id resolves to the address of
\* the one contract that call deployed and not to the account, also when id
\* was registered before: the earlier entry is replaced, the other entries
\* are kept, and nothing else is added.
C2_RegisterThenResolve ==
    [][ \A id \in Ids :
        (CalledOp = "ptr_initialize" /\ CallReturned
            /\ last_call'.owner_address = id) =>
          LET new == chain_contracts' \ chain_contracts
          IN  /\ Cardinality(new) = 1
              /\ \A c \in new :
                    /\ c.artifact = "NftPtrOwner"
                    /\ c.address \notin {d.address : d \in chain_contracts}
                    /\ mem_address_to_owner_contract_address(id)' = c.address
                    /\ instance_to_contract'[id] = c.address
              /\ mem_address_to_owner_contract_address(id)' # account'
              /\ DOMAIN instance_to_contract' = Registered \cup {id}
              /\ \A a \in Registered \ {id} :
                    instance_to_contract'[a] = instance_to_contract[a]
      ]_vars

\* A second successful ptr_initialize: two instance contracts are on chain,
\* one identifier is registered, and it maps to the later contract.
C2_Witness ==
    /\ last_call.op = "ptr_initialize"
    /\ last_call.result = "returned"
    /\ Cardinality(OwnerContracts) = 2
    /\ Registered = {last_call.owner_address}
    /\ \A c \in OwnerContracts :
          c.address <= instance_to_contract[last_call.owner_address]

\* C3: ptr_destroy(id) removes the entry of id and nothing else: id then
\* resolves to the account, the other entries, the account, the token
\* contract and the contracts on chain are unchanged, no transaction is
\* submitted, and destroying an unregistered id changes nothing.
C3_DestroyRemovesOnlyEntry ==
    [][ \A id \in Ids :
        (CalledOp = "ptr_destroy" /\ last_call'.owner_address = id) =>
              /\ CallReturned
              /\ mem_address_to_owner_contract_address(id)' = account'
              /\ DOMAIN instance_to_contract' = Registered \ {id}
              /\ \A a \in Registered \ {id} :
                    instance_to_contract'[a] = instance_to_contract[a]
              /\ UNCHANGED <<account, token_contract, chain_contracts>>
              /\ submitted' = <<>>
              /\ id \notin Registered => UNCHANGED <<libVars, chain_contracts>>
      ]_vars

\* ptr_destroy has removed an entry while another one is registered, and
\* the destroyed identifier's contract is still on chain.
C3_Witness ==
    /\ last_call.op = "ptr_destroy"
    /\ last_call.owner_address \notin Registered
    /\ Registered # {}
    /\ Cardinality(OwnerContracts) = 2

\* C4: when the node reports network identifier "1", initialize aborts
\* before any deployment: it panics having submitted nothing, no token
\* contract is ever created, the token contract stays unset and the account
\* keeps its zero value.
C4_MainnetAbortsBeforeDeploy ==
    net_version = "1" =>
        /\ token_contract = None
        /\ account = ZeroAddress
        /\ TokenContracts = {}
        /\ last_call.op = "initialize" =>
              /\ last_call.result = "panicked"
              /\ submitted = <<>>
              /\ network_id = 0

\* initialize has been called against network "1".
C4_Witness ==
    /\ net_version = "1"
    /\ last_call.op = "initialize"
    /\ last_call.result = "panicked"

\* C5: every key of the registry maps to an instance contract that is on
\* chain and whose deployment was confirmed with the configured number of
\* confirmations.
C5_RegistryHoldsConfirmedContracts ==
    \A id \in Registered :
        \E c \in OwnerContracts :
            /\ c.address = instance_to_contract[id]
            /\ c.confirmed
            /\ c.confirmations = num_confirmations

\* A deployment whose confirmation failed, while an earlier identifier is
\* registered, with a non-default confirmation count.
C5_Witness ==
    /\ Registered # {}
    /\ num_confirmations = 1
    /\ last_call.op = "ptr_initialize"
    /\ last_call.result = "panicked"
    /\ \E c \in OwnerContracts : ~c.confirmed

\* C6: a move_token call that returns has submitted exactly one
\* transaction, mintOrMove on the token contract, whose first two arguments
\* are what owner and previous owner resolve to in the registry at the call
\* and whose third is value; registry, account and token contract are
\* unchanged.
C6_MoveSubmitsOneMintOrMove ==
    [][ (CalledOp = "move_token" /\ CallReturned) =>
          LET resolved(a) == IF a \in Registered THEN instance_to_contract[a]
                             ELSE account
          IN  /\ Len(submitted') = 1
              /\ submitted'[1].method = "mintOrMove"
              /\ token_contract # None
              /\ submitted'[1].to = Unwrap(token_contract)
              /\ submitted'[1].args[1] = resolved(last_call'.owner_address)
              /\ submitted'[1].args[2] = resolved(last_call'.previous_owner_address)
              /\ submitted'[1].args[3] = last_call'.value
              /\ UNCHANGED <<instance_to_contract, account, token_contract>>
      ]_vars

\* move_token has returned for a registered owner and an unregistered
\* previous owner.
C6_Witness ==
    /\ last_call.op = "move_token"
    /\ last_call.result = "returned"
    /\ last_call.owner_address \in Registered
    /\ last_call.previous_owner_address \notin Registered
    /\ Len(submitted) = 1

\* C7 as claimed: over any sequence of operations at most one token
\* contract is deployed, and once the token contract and the account are
\* set they never change.
C7_TokenContractCreatedOnce ==
    [][ /\ Cardinality(TokenContracts') <= 1
        /\ (token_contract # None /\ account # ZeroAddress) =>
               UNCHANGED <<token_contract, account>>
      ]_vars

\* C7 as amended: only initialize deploys a token contract or changes the
\* token contract and the account; one call of initialize deploys at most
\* one token contract, and sets the handle to it when it returns.
C7_OnlyInitializeSetsTokenAndAccount ==
    [][ /\ CalledOp # "initialize" =>
               /\ UNCHANGED <<token_contract, account>>
               /\ TokenContracts' = TokenContracts
        /\ CalledOp = "initialize" =>
               /\ Cardinality(TokenContracts' \ TokenContracts) <= 1
               /\ Len(submitted') <= 1
               /\ CallReturned =>
                     /\ \E c \in TokenContracts' \ TokenContracts :
                           token_contract' = Some(c.address)
                     /\ account' = ResolvedAccount
      ]_vars

\* After initialize, an instance has been registered and the token contract
\* is the one token contract on chain.
C7_Witness ==
    /\ token_contract # None
    /\ Cardinality(TokenContracts) = 1
    /\ last_call.op = "ptr_initialize"
    /\ last_call.result = "returned"

\* C8: demangle_cpp returns the demangler's unmangled form for a name the
\* demangler accepts ("P3Cow" gives "Cow*") and the input itself for a name
\* it rejects.
C8_DemangleOrUnchanged ==
    sym_call.fn = "demangle_cpp" =>
        /\ sym_call.typename \in ValidMangled =>
               sym_call.out = SymbolToString(sym_call.typename)
        /\ sym_call.typename = P3Cow => Text(sym_call.out) = "Cow*"
        /\ sym_call.typename \notin ValidMangled =>
               sym_call.out = sym_call.typename

\* demangle_cpp has been called on a name that is not a mangled symbol.
C8_Witness ==
    /\ sym_call.fn = "demangle_cpp"
    /\ sym_call.typename \notin ValidMangled
    /\ Text(sym_call.out) = "main"

\* What string_for_pc_addr makes of the one symbol it uses.
SymbolText(symbol) ==
    IF symbol.filename # None /\ symbol.lineno # None
    THEN demangle_cpp(Unwrap(symbol.name)) \o <<" ", "(">>
         \o FileName(Unwrap(symbol.filename)) \o <<":">>
         \o Decimal(Unwrap(symbol.lineno)) \o <<")">>
    ELSE demangle_cpp(Unwrap(symbol.name))

\* C9 as claimed: the result is decided by the first reported symbol alone
\* (its name with file and line, its name, or the hexadecimal address when
\* it has no name or nothing is reported).
C9_FirstReportedSymbolOnly ==
    sym_call.fn = "string_for_pc_addr" =>
        sym_call.out =
            IF sym_call.symbols = <<>> \/ Head(sym_call.symbols).name = None
            THEN LowerHex(sym_call.pc_addr)
            ELSE SymbolText(Head(sym_call.symbols))

\* C9 as amended: the result is decided by the first reported symbol that
\* has a name: "<demangled> (<file name>:<line>)" when it has a filename and
\* a line, its demangled name otherwise; the lowercase hexadecimal address
\* when no reported symbol has a name.
C9_FirstNamedSymbolOnly ==
    sym_call.fn = "string_for_pc_addr" =>
        LET named == SelectSeq(sym_call.symbols, LAMBDA sy : sy.name # None)
        IN  sym_call.out = IF named = <<>> THEN LowerHex(sym_call.pc_addr)
                           ELSE SymbolText(Head(named))

\* A nameless symbol followed by a named one with file and line.
C9_Witness ==
    /\ sym_call.fn = "string_for_pc_addr"
    /\ Len(sym_call.symbols) = 2
    /\ sym_call.symbols[1].name = None
    /\ sym_call.symbols[2] = FooSymbol
    /\ Text(sym_call.out) = "foo() (cow.cpp:42)"

\* C10: a ptr_initialize whose deployment or confirmation fails has
\* submitted at most one transaction and leaves the registry, the account
\* and the token contract as they were; a failed move_token has submitted at
\* most one transaction and changes no field of the library; nothing runs
\* after the failure.
C10_FailureLeavesStateAndNoRetry ==
    [][ /\ (CalledOp = "ptr_initialize" /\ CallPanicked) =>
               /\ Len(submitted') <= 1
               /\ UNCHANGED libVars
        /\ (CalledOp = "move_token" /\ CallPanicked) =>
               /\ Len(submitted') <= 1
               /\ UNCHANGED libVars
        /\ ~Panicked
      ]_vars

\* A failed ptr_initialize of an identifier that keeps its earlier contract.
C10_Witness ==
    /\ last_call.op = "ptr_initialize"
    /\ last_call.result = "panicked"
    /\ last_call.owner_address \in Registered
    /\ Len(submitted) = 1

====
